---- MODULE Spec2Model ----
(***************************************************************************)
(* Model of virsh_api.py: the command executor, the text parsers, the      *)
(* guest-agent resolver and the request handlers built on them.            *)
(*                                                                         *)
(* Text is a sequence of symbols.  A symbol is an indivisible run of       *)
(* characters ("running", "vnet0", ":", " ", "\n"); the symbols are chosen *)
(* so that no substring the code searches for straddles two symbols.       *)
(* An optional value is None (the empty sequence) or Some(v) (<<v>>).      *)
(***************************************************************************)
EXTENDS Integers, Sequences, FiniteSets, TLC

VARIABLES pc, req, calls, outs, loc, resp, hv, accepted, fin, fout

vars == <<pc, req, calls, outs, loc, resp, hv, accepted, fin, fout>>

hvars == <<pc, req, calls, outs, loc, resp, hv, accepted>>

None == <<>>

Some(v) == <<v>>

\* Python truthiness of an Optional[str]
Truthy(opt) == opt # None /\ opt[1] # <<>>

Idle == "idle"

NoReq == [op |-> "none"]

NoLoc == [at |-> "none"]

NoResp == [kind |-> "none"]

Out(v) == [kind |-> "out", v |-> v]

(***************************************************************************)
(* str methods                                                             *)
(***************************************************************************)
IsSpace(c) == c \in {" ", "\n", "\t"}

RECURSIVE LStrip(_)
LStrip(s) == IF s = <<>> THEN s
             ELSE IF IsSpace(Head(s)) THEN LStrip(Tail(s)) ELSE s

RECURSIVE RStrip(_)
RStrip(s) == IF s = <<>> THEN s
             ELSE IF IsSpace(s[Len(s)]) THEN RStrip(SubSeq(s, 1, Len(s) - 1)) ELSE s

Strip(s) == RStrip(LStrip(s))

\* s.split(sep) for a one-symbol separator: always at least one piece
RECURSIVE SplitOn(_, _)
SplitOn(s, sep) ==
    IF \A i \in 1..Len(s) : s[i] # sep THEN <<s>>
    ELSE LET i == CHOOSE k \in 1..Len(s) : s[k] = sep /\ \A j \in 1..(k - 1) : s[j] # sep
         IN  <<SubSeq(s, 1, i - 1)>> \o SplitOn(SubSeq(s, i + 1, Len(s)), sep)

\* s.split(sep, 1)
SplitOnce(s, sep) ==
    IF \A i \in 1..Len(s) : s[i] # sep THEN <<s>>
    ELSE LET i == CHOOSE k \in 1..Len(s) : s[k] = sep /\ \A j \in 1..(k - 1) : s[j] # sep
         IN  <<SubSeq(s, 1, i - 1), SubSeq(s, i + 1, Len(s))>>

\* s.split(): the maximal runs of non-whitespace
RECURSIVE SplitWS(_)
SplitWS(s) ==
    LET t == LStrip(s) IN
    IF t = <<>> THEN <<>>
    ELSE LET n == IF \A i \in 1..Len(t) : ~IsSpace(t[i]) THEN Len(t)
                  ELSE (CHOOSE k \in 1..Len(t) :
                            IsSpace(t[k]) /\ \A j \in 1..(k - 1) : ~IsSpace(t[j])) - 1
         IN  <<SubSeq(t, 1, n)>> \o SplitWS(SubSeq(t, n + 1, Len(t)))

\* sub in s
Contains(sub, s) ==
    \E i \in 1..(Len(s) - Len(sub) + 1) : SubSeq(s, i, i + Len(sub) - 1) = sub

\* s.endswith(suf)
EndsWith(s, suf) ==
    Len(suf) <= Len(s) /\ SubSeq(s, Len(s) - Len(suf) + 1, Len(s)) = suf

LowerSym(c) ==
    CASE c = "State" -> "state"
      [] c = "Running" -> "running"
      [] c = "Created" -> "created"
      [] c = "Domain" -> "domain"
      [] OTHER -> c

\* s.lower()
Lower(s) == [i \in 1..Len(s) |-> LowerSym(s[i])]

\* sep.join(pieces)
RECURSIVE Join(_, _)
Join(pieces, sep) ==
    IF pieces = <<>> THEN <<>>
    ELSE IF Len(pieces) = 1 THEN pieces[1]
    ELSE pieces[1] \o sep \o Join(Tail(pieces), sep)

\* one header line skipped instead of two
Drop1(lines) == SubSeq(lines, 2, Len(lines))

\* lines[2:]
Drop2(lines) == SubSeq(lines, 3, Len(lines))

(***************************************************************************)
(* Outcome of one child process, as subprocess.run sees it                 *)
(***************************************************************************)
Exited(rc, out, err) == [kind |-> "exit", rc |-> rc, stdout |-> out, stderr |-> err]

TimedOut == [kind |-> "timeout"]

SpawnFailed == [kind |-> "spawn"]

\* raise HTTPException(status_code, detail): label is the fixed part of the
\* detail, text the interpolated output
HTTPException(status, label, text) ==
    [raised |-> TRUE, status |-> status, label |-> label, text |-> text]

DefaultTimeout == 30

(***************************************************************************)
(* run_virsh_command                                                       *)
(***************************************************************************)
\* the argv built before the child is spawned
VirshArgv(command, connection_uri, use_sudo) ==
    (IF use_sudo THEN << <<"sudo">>, <<"virsh">> >> ELSE << <<"virsh">> >>)
    \o (IF Truthy(connection_uri) THEN << <<"-c">>, connection_uri[1] >> ELSE <<>>)
    \o command

\* one call of run_virsh_command: what it was asked and the child it spawns
Call(command, connection_uri, timeout, use_sudo) ==
    [via |-> "run_virsh_command", cmd |-> command, uri |-> connection_uri,
     sudo |-> use_sudo, timeout |-> timeout,
     argv |-> VirshArgv(command, connection_uri, use_sudo)]

run_virsh_command_always_stderr(o, timeout) ==
    IF o.kind = "timeout" THEN HTTPException(504, "Command timed out", <<>>)
    ELSE IF o.kind = "spawn" THEN HTTPException(500, "Error executing virsh command", <<>>)
    ELSE LET output == Strip(o.stdout) IN
         [raised |-> FALSE,
          output |-> IF Strip(o.stderr) # <<>>
                     THEN (IF output # <<>> THEN output \o <<"\n">> \o Strip(o.stderr)
                           ELSE Strip(o.stderr))
                     ELSE output,
          rc |-> o.rc]

\* what the call returns or raises, given what became of the child
run_virsh_command(o, timeout) ==
    IF o.kind = "timeout" THEN HTTPException(504, "Command timed out", <<>>)
    ELSE IF o.kind = "spawn" THEN HTTPException(500, "Error executing virsh command", <<>>)
    ELSE LET output == Strip(o.stdout) IN
         [raised |-> FALSE,
          output |-> IF o.rc # 0 /\ Strip(o.stderr) # <<>>
                     THEN (IF output # <<>> THEN output \o <<"\n">> \o Strip(o.stderr)
                           ELSE Strip(o.stderr))
                     ELSE output,
          rc |-> o.rc]

(***************************************************************************)
(* parse_domifaddr_output                                                  *)
(***************************************************************************)
VMInterface(name, mac, protocol, address) ==
    [name |-> name, mac_address |-> mac, protocol |-> protocol, address |-> address]

\* one pass of the loop body: the records the line contributes
IfaddrLine(line) ==
    IF Strip(line) = <<>> THEN <<>>
    ELSE LET parts == SplitWS(line) IN
         IF Len(parts) < 2 THEN <<>>
         ELSE LET name == IF Len(parts) > 0 THEN parts[1] ELSE <<>>
                  mac == IF Len(parts) > 1 THEN Some(parts[2]) ELSE None
                  protocol == IF Len(parts) > 2 THEN Some(parts[3]) ELSE None
                  address == IF Len(parts) > 3 THEN Some(parts[4]) ELSE None
              IN  IF name # <<>> THEN <<VMInterface(name, mac, protocol, address)>> ELSE <<>>

RECURSIVE IfaddrLines(_)
IfaddrLines(lines) ==
    IF lines = <<>> THEN <<>> ELSE IfaddrLine(Head(lines)) \o IfaddrLines(Tail(lines))

parse_domifaddr_output(output) == IfaddrLines(Drop2(SplitOn(output, "\n")))

(***************************************************************************)
(* parse_vm_list                                                           *)
(***************************************************************************)
Digits == {"0", "1", "2", "3", "7"}

\* parts[0].isdigit()
IsDigit(tok) == Len(tok) > 0 /\ \A i \in 1..Len(tok) : tok[i] \in Digits

DigitVal(c) ==
    CASE c = "0" -> 0 [] c = "1" -> 1 [] c = "2" -> 2 [] c = "3" -> 3 [] c = "7" -> 7

\* int(tok) for a token of digits
RECURSIVE IntOf(_)
IntOf(tok) ==
    IF tok = <<>> THEN 0
    ELSE 10 * IntOf(SubSeq(tok, 1, Len(tok) - 1)) + DigitVal(tok[Len(tok)])

VMInfo(name, state, id) == [name |-> name, state |-> state, id |-> id]

\* the loop body with the id column never read
VmListLine_no_id(line) ==
    IF Strip(line) = <<>> THEN <<>>
    ELSE LET parts == SplitWS(line) IN
         IF Len(parts) < 2 THEN <<>>
         ELSE LET name == IF Len(parts) > 1 THEN parts[2] ELSE <<>>
                  state == IF Len(parts) > 2 THEN parts[3] ELSE <<"unknown">>
              IN  IF name # <<>> THEN <<VMInfo(name, state, None)>> ELSE <<>>

VmListLine(line) ==
    IF Strip(line) = <<>> THEN <<>>
    ELSE LET parts == SplitWS(line) IN
         IF Len(parts) < 2 THEN <<>>
         ELSE LET vm_id == IF IsDigit(parts[1]) THEN Some(parts[1]) ELSE None
                  name == IF Len(parts) > 1 THEN parts[2] ELSE <<>>
                  state == IF Len(parts) > 2 THEN parts[3] ELSE <<"unknown">>
              IN  IF name # <<>>
                  THEN <<VMInfo(name, state,
                                IF Truthy(vm_id) THEN Some(IntOf(vm_id[1])) ELSE None)>>
                  ELSE <<>>

RECURSIVE VmListLines(_)
VmListLines(lines) ==
    IF lines = <<>> THEN <<>> ELSE VmListLine(Head(lines)) \o VmListLines(Tail(lines))

parse_vm_list(output) == VmListLines(Drop2(SplitOn(output, "\n")))

(***************************************************************************)
(* parse_domblklist_output                                                 *)
(***************************************************************************)
VMDisk(target, source) == [target |-> target, source |-> source]

BlkLine(line) ==
    IF Strip(line) = <<>> THEN <<>>
    ELSE LET parts == SplitWS(line) IN
         IF Len(parts) < 1 THEN <<>>
         ELSE LET target == IF Len(parts) > 0 THEN parts[1] ELSE <<>>
                  source == IF Len(parts) > 1 /\ parts[2] # <<"-">> THEN Some(parts[2]) ELSE None
              IN  IF target # <<>> THEN <<VMDisk(target, source)>> ELSE <<>>

RECURSIVE BlkLines(_)
BlkLines(lines) ==
    IF lines = <<>> THEN <<>> ELSE BlkLine(Head(lines)) \o BlkLines(Tail(lines))

parse_domblklist_output(output) == BlkLines(Drop2(SplitOn(output, "\n")))

(***************************************************************************)
(* get_vm_interfaces_via_guest_agent                                       *)
(*                                                                         *)
(* The agent's standard output is either text json.loads rejects or the    *)
(* document it decodes to.  A document is a tagged value.                  *)
(***************************************************************************)
JStr(s) == [t |-> "str", s |-> s]

JInt(i) == [t |-> "int", i |-> i]

JNull == [t |-> "null"]

JList(l) == [t |-> "list", l |-> l]

JDict(d) == [t |-> "dict", d |-> d]

Malformed == [json |-> FALSE]

Document(doc) == [json |-> TRUE, doc |-> doc]

AgentTimeout == 10

AgentCall(vm_name, connection_uri) ==
    [via |-> "subprocess.run",
     cmd |-> << <<"qemu-agent-command">>, vm_name, <<"guest-network-get-interfaces">> >>,
     uri |-> connection_uri, sudo |-> FALSE, timeout |-> AgentTimeout,
     argv |-> VirshArgv(<< <<"qemu-agent-command">>, vm_name,
                           <<"guest-network-get-interfaces">> >>, connection_uri, FALSE)]

\* d.get(k, default)
JGet(d, k, default) == IF k \in DOMAIN d.d THEN d.d[k] ELSE default

\* truthiness of a decoded value
PyTruth(v) ==
    CASE v.t = "str" -> v.s # <<>>
      [] v.t = "int" -> v.i # 0
      [] v.t = "null" -> FALSE
      [] v.t = "list" -> v.l # <<>>
      [] v.t = "dict" -> DOMAIN v.d # {}

\* how an f-string renders a decoded scalar
PyFormat(v) ==
    CASE v.t = "str" -> v.s
      [] v.t = "int" -> <<ToString(v.i)>>
      [] v.t = "null" -> <<"None">>

\* a value given to an Optional[str] field
OptStr(v) == IF v.t = "null" THEN None ELSE Some(v.s)

\* one pass of the inner loop: the record built from an address entry, or the
\* exception that ends the function
AgentEntry(iface, ip_info) ==
    IF ip_info.t # "dict" THEN [raised |-> TRUE]
    ELSE LET ip_type == JGet(ip_info, "ip-address-type", JStr(<<>>))
             ip_addr == JGet(ip_info, "ip-address", JStr(<<>>))
             prefix == JGet(ip_info, "prefix", JStr(<<>>))
             formatted_addr ==
                 IF PyTruth(ip_addr) /\ PyTruth(prefix)
                 THEN JStr(PyFormat(ip_addr) \o <<"/">> \o PyFormat(prefix))
                 ELSE ip_addr
             interface_name == JGet(iface, "name", JStr(<<"unknown">>))
             mac == JGet(iface, "hardware-address", JNull)
         IN  IF /\ interface_name.t = "str"
                /\ mac.t \in {"str", "null"}
                /\ ip_type.t \in {"str", "null"}
                /\ formatted_addr.t \in {"str", "null"}
             THEN [raised |-> FALSE,
                   rec |-> VMInterface(interface_name.s, OptStr(mac), OptStr(ip_type),
                                       OptStr(formatted_addr))]
             ELSE [raised |-> TRUE]

\* the inner loop over one interface's address entries: the records appended
\* and whether an exception ended it
RECURSIVE AgentEntries(_, _)
AgentEntries(iface, entries) ==
    IF entries = <<>> THEN [out |-> <<>>, raised |-> FALSE]
    ELSE LET e == AgentEntry(iface, Head(entries)) IN
         IF e.raised THEN [out |-> <<>>, raised |-> TRUE]
         ELSE LET rest == AgentEntries(iface, Tail(entries))
              IN  [out |-> <<e.rec>> \o rest.out, raised |-> rest.raised]

\* the outer loop over the interface descriptors
RECURSIVE AgentIfaces(_)
AgentIfaces(ifaces) ==
    IF ifaces = <<>> THEN [out |-> <<>>, raised |-> FALSE]
    ELSE LET iface == Head(ifaces) IN
         IF iface.t # "dict" THEN [out |-> <<>>, raised |-> TRUE]
         ELSE IF JGet(iface, "name", JNull) = JStr(<<"lo">>) THEN AgentIfaces(Tail(ifaces))
         ELSE LET ip_addresses == JGet(iface, "ip-addresses", JList(<<>>)) IN
              IF ip_addresses.t # "list" THEN [out |-> <<>>, raised |-> TRUE]
              ELSE LET mine == AgentEntries(iface, ip_addresses.l) IN
                   IF mine.raised THEN mine
                   ELSE LET rest == AgentIfaces(Tail(ifaces))
                        IN  [out |-> mine.out \o rest.out, raised |-> rest.raised]

\* the try block: interfaces as they stand when the function returns, and
\* whether the except clause was entered
AgentTry(o) ==
    IF o.kind # "exit" THEN [out |-> <<>>, raised |-> TRUE]
    ELSE IF o.rc # 0 THEN [out |-> <<>>, raised |-> FALSE]
    ELSE IF ~o.stdout.json THEN [out |-> <<>>, raised |-> TRUE]
    ELSE LET data == o.stdout.doc IN
         IF data.t # "dict" THEN [out |-> <<>>, raised |-> data.t # "list"]
         ELSE IF "return" \in DOMAIN data.d /\ data.d["return"].t = "list"
              THEN AgentIfaces(data.d["return"].l)
              ELSE [out |-> <<>>, raised |-> FALSE]

get_vm_interfaces_via_guest_agent(o) == AgentTry(o).out

(***************************************************************************)
(* Responses                                                               *)
(***************************************************************************)
Ok(body) == [kind |-> "ok", body |-> body]

\* an HTTPException leaving the handler
Err(e) == [kind |-> "error", status |-> e.status, label |-> e.label, text |-> e.text]

OperationResponse(message, vm_name) ==
    [success |-> TRUE, message |-> message, vm_name |-> vm_name]

(***************************************************************************)
(* Lifecycle operations: what each handler makes of its one call           *)
(***************************************************************************)
power_on_swallow(vm_name, r) ==
    IF r.raised THEN Err(r)
    ELSE Ok(OperationResponse("started successfully", vm_name))

power_on(vm_name, r) ==
    IF r.raised THEN Err(r)
    ELSE IF r.rc # 0 THEN Err(HTTPException(500, "Failed to start VM", r.output))
    ELSE Ok(OperationResponse("started successfully", vm_name))

power_off(vm_name, r) ==
    IF r.raised THEN Err(r)
    ELSE IF r.rc # 0 THEN Err(HTTPException(500, "Failed to shutdown VM", r.output))
    ELSE Ok(OperationResponse("shutdown initiated", vm_name))

force_off(vm_name, r) ==
    IF r.raised THEN Err(r)
    ELSE IF r.rc # 0 THEN Err(HTTPException(500, "Failed to destroy VM", r.output))
    ELSE Ok(OperationResponse("forcefully stopped", vm_name))

reboot(vm_name, r) ==
    IF r.raised THEN Err(r)
    ELSE IF r.rc # 0 THEN Err(HTTPException(500, "Failed to reboot VM", r.output))
    ELSE Ok(OperationResponse("reboot initiated", vm_name))

pause(vm_name, r) ==
    IF r.raised THEN Err(r)
    ELSE IF r.rc # 0 THEN Err(HTTPException(500, "Failed to pause VM", r.output))
    ELSE Ok(OperationResponse("paused", vm_name))

resume(vm_name, r) ==
    IF r.raised THEN Err(r)
    ELSE IF r.rc # 0 THEN Err(HTTPException(500, "Failed to resume VM", r.output))
    ELSE Ok(OperationResponse("resumed", vm_name))

LifecycleOps == {"power_on", "power_off", "force_off", "reboot", "pause", "resume"}

\* the command list each handler passes to run_virsh_command
LifecycleCommand(op, vm_name) ==
    CASE op = "power_on" -> << <<"start">>, vm_name >>
      [] op = "power_off" -> << <<"shutdown">>, vm_name >>
      [] op = "force_off" -> << <<"destroy">>, vm_name >>
      [] op = "reboot" -> << <<"reboot">>, vm_name >>
      [] op = "pause" -> << <<"suspend">>, vm_name >>
      [] op = "resume" -> << <<"resume">>, vm_name >>

LifecycleResponse(op, vm_name, r) ==
    CASE op = "power_on" -> power_on(vm_name, r)
      [] op = "power_off" -> power_off(vm_name, r)
      [] op = "force_off" -> force_off(vm_name, r)
      [] op = "reboot" -> reboot(vm_name, r)
      [] op = "pause" -> pause(vm_name, r)
      [] op = "resume" -> resume(vm_name, r)

(***************************************************************************)
(* delete_vm                                                               *)
(***************************************************************************)
DeleteTimeout == 60

\* the state scraped from the dominfo text: None when no line holds 'State:'
DeleteVmState(stdout) ==
    LET lines == SplitOn(stdout, "\n")
        hits == {i \in 1..Len(lines) : Contains(<<"State", ":">>, lines[i])}
    IN  IF hits = {} THEN None
        ELSE LET i == CHOOSE k \in hits : \A j \in hits : k <= j
             IN  Some(Lower(Strip(SplitOnce(lines[i], ":")[2])))

DeleteNeedsDestroy_never(stdout) == FALSE

\* if vm_state and 'running' in vm_state
DeleteNeedsDestroy(stdout) ==
    LET vm_state == DeleteVmState(stdout)
    IN  Truthy(vm_state) /\ Contains(<<"running">>, vm_state[1])

DestroyCall(vm_name, uri) == Call(<< <<"destroy">>, vm_name >>, uri, DefaultTimeout, FALSE)

UndefineCall(vm_name, uri) ==
    Call(<< <<"undefine">>, <<"--domain">>, vm_name, <<"--remove-all-storage">> >>,
         uri, DeleteTimeout, FALSE)

\* what delete_vm does once a call has returned r: respond, or issue a call
Respond(response) == [do |-> "respond", resp |-> response, loc |-> NoLoc]

Issue(call, at) == [do |-> "call", call |-> call, at |-> at, loc |-> NoLoc]

\* the same, with the handler's local variables as they then stand
IssueWith(call, at, locals) == [do |-> "call", call |-> call, at |-> at, loc |-> locals]

delete_vm_after_dominfo_goes_on(vm_name, uri, r) ==
    IF r.raised THEN Respond(Err(r))
    ELSE IF r.rc # 0 THEN Issue(UndefineCall(vm_name, uri), "delete_undefine")
    ELSE IF DeleteNeedsDestroy(r.output)
         THEN Issue(DestroyCall(vm_name, uri), "delete_destroy")
         ELSE Issue(UndefineCall(vm_name, uri), "delete_undefine")

delete_vm_after_dominfo(vm_name, uri, r) ==
    IF r.raised THEN Respond(Err(r))
    ELSE IF r.rc # 0 THEN Respond(Err(HTTPException(404, "VM not found", r.output)))
    ELSE IF DeleteNeedsDestroy(r.output)
         THEN Issue(DestroyCall(vm_name, uri), "delete_destroy")
         ELSE Issue(UndefineCall(vm_name, uri), "delete_undefine")

delete_vm_after_destroy(vm_name, uri, r) ==
    IF r.raised THEN Respond(Err(r))
    ELSE IF r.rc # 0
         THEN Respond(Err(HTTPException(500, "Failed to stop running VM", r.output)))
         ELSE Issue(UndefineCall(vm_name, uri), "delete_undefine")

\* the exit code of the undefine call never looked at
delete_vm_after_undefine_always_ok(vm_name, uri, r) ==
    IF r.raised THEN Respond(Err(r))
    ELSE Respond(Ok(OperationResponse("permanently deleted", vm_name)))

delete_vm_after_undefine(vm_name, uri, r) ==
    IF r.raised THEN Respond(Err(r))
    ELSE IF r.rc # 0
         THEN Respond(Err(HTTPException(500, "Failed to delete VM and its storage", r.output)))
         ELSE Respond(Ok(OperationResponse("permanently deleted", vm_name)))

(***************************************************************************)
(* get_vm_ip                                                               *)
(***************************************************************************)
VMIPResponse(vm_name, interfaces) == [vm_name |-> vm_name, interfaces |-> interfaces]

DomifaddrCall(vm_name, uri) == Call(<< <<"domifaddr">>, vm_name >>, uri, DefaultTimeout, TRUE)

get_vm_ip_after_domifaddr(vm_name, uri, r) ==
    IF r.raised THEN Respond(Err(r))
    ELSE IF r.rc # 0
    THEN IF Contains(<<"not found">>, Lower(r.output)) \/ Contains(<<"no domain">>, Lower(r.output))
         THEN Respond(Err(HTTPException(404, "VM not found", r.output)))
         ELSE IF \/ Contains(<<"not running">>, Lower(r.output))
                 \/ Contains(<<"shut", " ", "off">>, Lower(r.output))
         THEN Respond(Err(HTTPException(400, "VM is not running", <<>>)))
         ELSE Respond(Err(HTTPException(500, "Failed to get IP address for VM", r.output)))
    ELSE LET interfaces == parse_domifaddr_output(r.output) IN
         IF interfaces = <<>> THEN Issue(AgentCall(vm_name, uri), "ip_agent")
         ELSE Respond(Ok(VMIPResponse(vm_name, interfaces)))

\* both branches after the fallback return the same response
get_vm_ip_after_agent(vm_name, o) ==
    Respond(Ok(VMIPResponse(vm_name, get_vm_interfaces_via_guest_agent(o))))

(***************************************************************************)
(* list_vms_with_ips                                                       *)
(***************************************************************************)
VMWithIP(vm, uuid, interfaces) ==
    [name |-> vm.name, state |-> vm.state, id |-> vm.id, uuid |-> uuid,
     interfaces |-> interfaces]

\* [vm for vm in vms if vm.state.lower() == state.lower()]
RECURSIVE FilterByState(_, _)
FilterByState(vms, state) ==
    IF vms = <<>> THEN <<>>
    ELSE (IF Lower(Head(vms).state) = Lower(state) THEN <<Head(vms)>> ELSE <<>>)
         \o FilterByState(Tail(vms), state)

ListResolves_always(vm) == TRUE

\* vm.state.lower() in ['running', 'idle', 'paused']
ListResolves(vm) == Lower(vm.state) \in {<<"running">>, <<"idle">>, <<"paused">>}

DomuuidCall(vm_name, uri) == Call(<< <<"domuuid">>, vm_name >>, uri, DefaultTimeout, FALSE)

\* the head of the for loop: the first call made for vms[i], or the response
\* once every VM has its record
list_vms_next_vm(uri, vms, i, done) ==
    IF i > Len(vms) THEN Respond(Ok([count |-> Len(done), vms |-> done]))
    ELSE IF ListResolves(vms[i])
         THEN IssueWith(DomifaddrCall(vms[i].name, uri), "list_domifaddr",
                        [vms |-> vms, i |-> i, done |-> done, interfaces |-> <<>>])
         ELSE IssueWith(DomuuidCall(vms[i].name, uri), "list_domuuid",
                        [vms |-> vms, i |-> i, done |-> done, interfaces |-> <<>>])

list_vms_after_list(uri, state, r) ==
    IF r.raised THEN Respond(Err(r))
    ELSE IF r.rc # 0 THEN Respond(Err(HTTPException(500, "Failed to list VMs", r.output)))
    ELSE LET vms == parse_vm_list(r.output)
         IN  list_vms_next_vm(uri, IF Truthy(state) THEN FilterByState(vms, state[1]) ELSE vms,
                              1, <<>>)

list_vms_after_domifaddr_propagates(uri, l, r) ==
    IF r.raised THEN Respond(Err(r))
    ELSE LET interfaces == IF r.rc = 0 THEN parse_domifaddr_output(r.output) ELSE <<>> IN
         IF interfaces = <<>>
         THEN IssueWith(AgentCall(l.vms[l.i].name, uri), "list_agent", l)
         ELSE IssueWith(DomuuidCall(l.vms[l.i].name, uri), "list_domuuid",
                        [l EXCEPT !.interfaces = interfaces])

list_vms_after_domifaddr_no_fallback(uri, l, r) ==
    IF r.raised THEN IssueWith(AgentCall(l.vms[l.i].name, uri), "list_agent", l)
    ELSE LET interfaces == IF r.rc = 0 THEN parse_domifaddr_output(r.output) ELSE <<>> IN
         IF interfaces = <<>> /\ r.rc # 0
         THEN IssueWith(AgentCall(l.vms[l.i].name, uri), "list_agent", l)
         ELSE IssueWith(DomuuidCall(l.vms[l.i].name, uri), "list_domuuid",
                        [l EXCEPT !.interfaces = interfaces])

\* the try block around the address listing: an exception of the call, like a
\* failed call or an empty table, leads to the guest agent
list_vms_after_domifaddr(uri, l, r) ==
    IF r.raised THEN IssueWith(AgentCall(l.vms[l.i].name, uri), "list_agent", l)
    ELSE LET interfaces == IF r.rc = 0 THEN parse_domifaddr_output(r.output) ELSE <<>> IN
         IF interfaces = <<>>
         THEN IssueWith(AgentCall(l.vms[l.i].name, uri), "list_agent", l)
         ELSE IssueWith(DomuuidCall(l.vms[l.i].name, uri), "list_domuuid",
                        [l EXCEPT !.interfaces = interfaces])

list_vms_after_agent(uri, l, o) ==
    IssueWith(DomuuidCall(l.vms[l.i].name, uri), "list_domuuid",
              [l EXCEPT !.interfaces = get_vm_interfaces_via_guest_agent(o)])

\* the uuid query outside any try block
list_vms_after_domuuid_propagates(uri, l, r) ==
    IF r.raised THEN Respond(Err(r))
    ELSE LET uuid == IF r.rc = 0 THEN Some(Strip(r.output)) ELSE None
         IN  list_vms_next_vm(uri, l.vms, l.i + 1,
                              Append(l.done, VMWithIP(l.vms[l.i], uuid, l.interfaces)))

list_vms_after_domuuid(uri, l, r) ==
    LET uuid == IF ~r.raised /\ r.rc = 0 THEN Some(Strip(r.output)) ELSE None
    IN  list_vms_next_vm(uri, l.vms, l.i + 1,
                         Append(l.done, VMWithIP(l.vms[l.i], uuid, l.interfaces)))

(***************************************************************************)
(* create_linked_clone                                                     *)
(***************************************************************************)
CloneTimeout == 300

create_linked_clone_cmd_no_placeholder(script_path, vm_name, request) ==
    <<script_path, vm_name, request.new_vm_name>>
    \o (IF request.disk_target # None THEN <<request.disk_target[1]>> ELSE <<>>)
    \o (IF Truthy(request.connection_uri) THEN <<request.connection_uri[1]>> ELSE <<>>)

\* the argv handed to subprocess.run
create_linked_clone_cmd(script_path, vm_name, request) ==
    <<script_path, vm_name, request.new_vm_name>>
    \o (IF request.disk_target # None THEN <<request.disk_target[1]>> ELSE <<>>)
    \o (IF Truthy(request.connection_uri)
        THEN (IF request.disk_target = None THEN << <<>> >> ELSE <<>>)
             \o <<request.connection_uri[1]>>
        ELSE <<>>)

CloneCall(script_path, vm_name, request) ==
    [via |-> "subprocess.run", cmd |-> << <<"linked-clone">>, vm_name >>,
     uri |-> request.connection_uri, sudo |-> FALSE, timeout |-> CloneTimeout,
     argv |-> create_linked_clone_cmd(script_path, vm_name, request)]

\* the inner loop: the first token of the line ending in .qcow2, else what
\* disk_path held
RECURSIVE CloneFirstImage(_, _)
CloneFirstImage(parts, disk_path) ==
    IF parts = <<>> THEN disk_path
    ELSE IF EndsWith(Head(parts), <<".qcow2">>) THEN Some(Head(parts))
    ELSE CloneFirstImage(Tail(parts), disk_path)

\* the outer loop over the output lines
RECURSIVE CloneScan(_, _)
CloneScan(lines, disk_path) ==
    IF lines = <<>> THEN disk_path
    ELSE LET line == Head(lines) IN
         CloneScan(Tail(lines),
                   IF Contains(<<"created", " ", "at">>, Lower(line)) \/ Contains(<<".qcow2">>, line)
                   THEN CloneFirstImage(SplitWS(line), disk_path)
                   ELSE disk_path)

LinkedCloneResponse(vm_name, request, disk_path) ==
    [success |-> TRUE, source_vm |-> vm_name, new_vm_name |-> request.new_vm_name,
     disk_path |-> disk_path]

\* the detail of a failed run: the exit code's label, then stderr, then stdout
CloneErrorParts(o) ==
    <<IF o.rc = 141 THEN <<"Exit code 141 (SIGPIPE)">> ELSE <<"Exit code", " ", ToString(o.rc)>>>>
    \o (IF Strip(o.stderr) # <<>> THEN <<Strip(o.stderr)>> ELSE <<>>)
    \o (IF Strip(o.stdout) # <<>> THEN <<Strip(o.stdout)>> ELSE <<>>)

create_linked_clone_after_run(vm_name, request, o) ==
    IF o.kind = "timeout"
    THEN Respond(Err(HTTPException(504, "Linked clone operation timed out", <<>>)))
    ELSE IF o.kind = "spawn"
    THEN Respond(Err(HTTPException(500, "Unexpected error creating linked clone", <<>>)))
    ELSE IF o.rc # 0
    THEN Respond(Err(HTTPException(500, "Failed to create linked clone",
                                   Join(CloneErrorParts(o), <<"\n">>))))
    ELSE Respond(Ok(LinkedCloneResponse(vm_name, request,
                                        CloneScan(SplitOn(o.stdout, "\n"), None))))

(***************************************************************************)
(* Bounded texts                                                           *)
(***************************************************************************)
MaxLen == 2

RECURSIVE SeqsUpTo(_, _)
SeqsUpTo(S, n) ==
    IF n = 0 THEN {<<>>}
    ELSE LET shorter == SeqsUpTo(S, n - 1)
         IN  shorter \cup {Append(s, c) : s \in {t \in shorter : Len(t) = n - 1}, c \in S}

ExecAlphabet == {"a", " ", "\n"}

ExecTexts == SeqsUpTo(ExecAlphabet, MaxLen)

ExitCodes == {0, 1, 141}

ExecOutcomes ==
    {Exited(rc, out, err) : rc \in ExitCodes, out \in ExecTexts, err \in ExecTexts}
    \cup {TimedOut, SpawnFailed}

HandlersIdle ==
    /\ pc = Idle
    /\ req = NoReq
    /\ calls = <<>>
    /\ outs = <<>>
    /\ loc = NoLoc
    /\ resp = NoResp
    /\ hv = [v \in {} |-> "absent"]
    /\ accepted = <<>>

Styles == {"tight", "padded"}

RenderRow(row) ==
    IF row.style = "tight" THEN Join(row.tokens, <<" ">>)
    ELSE <<" ">> \o Join(row.tokens, <<" ", " ">>) \o <<" ">>

RenderTable(header, rows) ==
    Join(header \o [i \in 1..Len(rows) |-> RenderRow(rows[i])], <<"\n">>)

IfaddrHeader ==
    << <<" ", "Name", " ", "MAC address", " ", "Protocol", " ", "Address">>, <<"-----">> >>

(***************************************************************************)
(* The hypervisor behind virsh: what a child process can report, given the *)
(* domains' states, and what a successful command does to them             *)
(***************************************************************************)
VMOrder == << <<"web01">>, <<"db02">> >>

VMs == {VMOrder[i] : i \in 1..Len(VMOrder)}

HvStates == {"running", "paused", "shut off", "absent"}

RunningFamily == {"running", "paused"}

StateText(st) ==
    CASE st = "running" -> <<"running">>
      [] st = "paused" -> <<"paused">>
      [] st = "shut off" -> <<"shut", " ", "off">>

VmId(vm) == IF vm = <<"web01">> THEN <<"3">> ELSE <<"1", "2">>

ErrNoDomain ==
    <<"error:", " ", "Domain", " ", "not found", ":", " ", "no domain", " ", "with matching name">>

ErrNotRunning ==
    <<"error:", " ", "Requested operation is not valid", ":", " ", "domain is", " ", "not running">>

ErrNotValid == <<"error:", " ", "Requested operation is not valid">>

ErrConnect == <<"error:", " ", "failed to connect to the hypervisor">>

\* virsh list --all
ListHeader == << <<" ", "Id", " ", " ", "Name", " ", " ", "State">>, <<"-----">> >>

ListRow(vm, st) ==
    [tokens |-> << (IF st \in RunningFamily THEN VmId(vm) ELSE <<"-">>), vm >>
                   \o SplitWS(StateText(st)),
     style |-> "padded"]

RECURSIVE ListRows(_, _)
ListRows(order, h) ==
    IF order = <<>> THEN <<>>
    ELSE (IF h[Head(order)] = "absent" THEN <<>> ELSE <<ListRow(Head(order), h[Head(order)])>>)
         \o ListRows(Tail(order), h)

ListText(h) == RenderTable(ListHeader, ListRows(VMOrder, h)) \o <<"\n">>

\* the state as virsh words it in the locale
LocalState(st, locale) ==
    IF locale = "C" THEN StateText(st)
    ELSE CASE st = "running" -> <<"laufend">>
           [] st = "paused" -> <<"pausiert">>
           [] st = "shut off" -> <<"ausgeschaltet">>

\* virsh dominfo, in the C locale and in a translated one
DomInfoText(vm, st, locale) ==
    Join(<< <<"Id", ":", " ", " ">> \o (IF st \in RunningFamily THEN VmId(vm) ELSE <<"-">>),
            <<"Name", ":", " ", " ">> \o vm,
            <<(IF locale = "C" THEN "State" ELSE "Status"), ":", " ", " ">>
                \o LocalState(st, locale),
            <<"CPU time", ":", " ", "12.5s">> >>, <<"\n">>) \o <<"\n">>

Locales == {"C", "de"}

\* virsh domifaddr on a running domain
IfaddrReplies ==
    { <<>>,
      << [tokens |-> << <<"vnet0">>, <<"52:54:00:12:34:56">>, <<"ipv4">>,
                        <<"192.168.122.100/24">> >>, style |-> "padded"] >>,
      << [tokens |-> << <<"vnet0">>, <<"52:54:00:12:34:56">>, <<"ipv4">>,
                        <<"192.168.122.100/24">> >>, style |-> "padded"],
         [tokens |-> << <<"-">>, <<"-">>, <<"ipv6">>, <<"fe80::1/64">> >>,
          style |-> "padded"] >> }

Eth0 ==
    JDict([k \in {"name", "hardware-address", "ip-addresses"} |->
             CASE k = "name" -> JStr(<<"eth0">>)
               [] k = "hardware-address" -> JStr(<<"52:54:00:12:34:56">>)
               [] k = "ip-addresses" ->
                    JList(<< JDict([j \in {"ip-address-type", "ip-address", "prefix"} |->
                                      CASE j = "ip-address-type" -> JStr(<<"ipv4">>)
                                        [] j = "ip-address" -> JStr(<<"10.0.0.5">>)
                                        [] j = "prefix" -> JInt(24)]) >>)])

Loopback ==
    JDict([k \in {"name", "ip-addresses"} |->
             CASE k = "name" -> JStr(<<"lo">>)
               [] k = "ip-addresses" ->
                    JList(<< JDict([j \in {"ip-address-type", "ip-address", "prefix"} |->
                                      CASE j = "ip-address-type" -> JStr(<<"ipv4">>)
                                        [] j = "ip-address" -> JStr(<<"127.0.0.1">>)
                                        [] j = "prefix" -> JInt(8)]) >>)])

Reply(ifaces) == Document(JDict([k \in {"return"} |-> JList(ifaces)]))

\* what the guest agent of a running domain may answer
AgentReplies ==
    { Malformed,
      Document(JDict([k \in {"error"} |-> JStr(<<"agent not connected">>)])),
      Reply(<<>>),
      Reply(<<Loopback, Eth0>>),
      Reply(<<Eth0, JStr(<<"garbage">>)>>) }

Failures == {TimedOut, SpawnFailed, Exited(1, <<>>, ErrConnect)}

Verb(c) == c.cmd[1]

Target(c) == IF Verb(c) = <<"undefine">> THEN c.cmd[3] ELSE c.cmd[2]

\* what may become of the child of call c while the domains are as in h
EnvOutcomes(c, h) ==
    Failures \cup
    (IF Verb(c) = <<"list">> THEN {Exited(0, ListText(h), <<>>)}
     ELSE LET st == h[Target(c)] IN
       IF st = "absent" THEN {Exited(1, <<>>, ErrNoDomain)}
       ELSE CASE Verb(c) = <<"dominfo">> ->
                   {Exited(0, DomInfoText(Target(c), st, l), <<>>) : l \in Locales}
              [] Verb(c) = <<"domuuid">> -> {Exited(0, <<"uuid-of-">> \o Target(c) \o <<"\n">>, <<>>)}
              [] Verb(c) = <<"undefine">> -> {Exited(0, <<"Domain", " ", "has been undefined", "\n">>, <<>>)}
              [] Verb(c) = <<"start">> ->
                   IF st = "shut off" THEN {Exited(0, <<"Domain", " ", "started", "\n">>, <<>>)}
                   ELSE {Exited(1, <<>>, ErrNotValid)}
              [] Verb(c) \in {<<"shutdown">>, <<"reboot">>, <<"suspend">>} ->
                   IF st = "running" THEN {Exited(0, <<"Domain", " ", "done", "\n">>, <<>>)}
                   ELSE {Exited(1, <<>>, ErrNotRunning)}
              [] Verb(c) = <<"resume">> ->
                   IF st = "paused" THEN {Exited(0, <<"Domain", " ", "resumed", "\n">>, <<>>)}
                   ELSE {Exited(1, <<>>, ErrNotValid)}
              [] Verb(c) = <<"destroy">> ->
                   IF st \in RunningFamily THEN {Exited(0, <<"Domain", " ", "destroyed", "\n">>, <<>>)}
                   ELSE {Exited(1, <<>>, ErrNotRunning)}
              [] Verb(c) = <<"domifaddr">> ->
                   IF st \in RunningFamily
                   THEN {Exited(0, RenderTable(IfaddrHeader, rows) \o <<"\n">>, <<>>) : rows \in IfaddrReplies}
                   ELSE {Exited(1, <<>>, ErrNotRunning)}
              [] Verb(c) = <<"qemu-agent-command">> ->
                   IF st \in RunningFamily
                   THEN {Exited(0, reply, <<>>) : reply \in AgentReplies}
                   ELSE {Exited(1, Malformed, ErrNotRunning)})

\* the domains after call c ended as o
EnvEffect(c, o, h) ==
    IF o.kind # "exit" \/ o.rc # 0 THEN h
    ELSE CASE Verb(c) = <<"start">> -> [h EXCEPT ![Target(c)] = "running"]
           [] Verb(c) = <<"resume">> -> [h EXCEPT ![Target(c)] = "running"]
           [] Verb(c) = <<"suspend">> -> [h EXCEPT ![Target(c)] = "paused"]
           [] Verb(c) = <<"destroy">> -> [h EXCEPT ![Target(c)] = "shut off"]
           [] Verb(c) = <<"undefine">> ->
                IF h[Target(c)] = "shut off" THEN [h EXCEPT ![Target(c)] = "absent"] ELSE h
           [] OTHER -> h

(***************************************************************************)
(* The request handlers, one request at a time                             *)
(***************************************************************************)
URIs == {None, Some(<<"qemu:///system">>)}

Last(q) == q[Len(q)]

\* a request arrives and its handler issues its first call
Begin(request, call, at) ==
    /\ req' = request
    /\ calls' = <<call>>
    /\ pc' = at
    /\ UNCHANGED <<outs, loc, resp, hv, accepted, fin, fout>>

\* the handler goes on from a returned call as step says
Continue(o, step) ==
    /\ outs' = Append(outs, o)
    /\ hv' = EnvEffect(Last(calls), o, hv)
    /\ IF step.do = "respond"
       THEN /\ resp' = step.resp
            /\ pc' = "done"
            /\ calls' = calls
       ELSE /\ resp' = resp
            /\ pc' = step.at
            /\ calls' = Append(calls, step.call)
    /\ loc' = step.loc
    /\ UNCHANGED <<req, accepted, fin, fout>>

LifecycleBegin ==
    /\ pc = Idle
    /\ \E op \in LifecycleOps, vm \in VMs, uri \in URIs :
        Begin([op |-> op, vm |-> vm, uri |-> uri],
              Call(LifecycleCommand(op, vm), uri, DefaultTimeout, FALSE), "lifecycle")

LifecycleReturn ==
    /\ pc = "lifecycle"
    /\ \E o \in EnvOutcomes(Last(calls), hv) :
          Continue(o, Respond(LifecycleResponse(req.op, req.vm,
                                                run_virsh_command(o, Last(calls).timeout))))

DeleteBegin ==
    /\ pc = Idle
    /\ \E vm \in VMs, uri \in URIs :
        Begin([op |-> "delete_vm", vm |-> vm, uri |-> uri],
              Call(<< <<"dominfo">>, vm >>, uri, DefaultTimeout, FALSE), "delete_dominfo")

DeleteDominfoReturn ==
    /\ pc = "delete_dominfo"
    /\ \E o \in EnvOutcomes(Last(calls), hv) :
          Continue(o, delete_vm_after_dominfo(req.vm, req.uri,
                                              run_virsh_command(o, Last(calls).timeout)))

DeleteDestroyReturn ==
    /\ pc = "delete_destroy"
    /\ \E o \in EnvOutcomes(Last(calls), hv) :
          Continue(o, delete_vm_after_destroy(req.vm, req.uri,
                                              run_virsh_command(o, Last(calls).timeout)))

DeleteUndefineReturn ==
    /\ pc = "delete_undefine"
    /\ \E o \in EnvOutcomes(Last(calls), hv) :
          Continue(o, delete_vm_after_undefine(req.vm, req.uri,
                                               run_virsh_command(o, Last(calls).timeout)))

IpBegin ==
    /\ pc = Idle
    /\ \E vm \in VMs, uri \in URIs :
        Begin([op |-> "get_vm_ip", vm |-> vm, uri |-> uri], DomifaddrCall(vm, uri), "ip_domifaddr")

IpDomifaddrReturn ==
    /\ pc = "ip_domifaddr"
    /\ \E o \in EnvOutcomes(Last(calls), hv) :
          Continue(o, get_vm_ip_after_domifaddr(req.vm, req.uri,
                                                run_virsh_command(o, Last(calls).timeout)))

IpAgentReturn ==
    /\ pc = "ip_agent"
    /\ \E o \in EnvOutcomes(Last(calls), hv) :
          Continue(o, get_vm_ip_after_agent(req.vm, o))

StateFilters == {None, Some(<<"Running">>), Some(<<"shut">>)}

ListBegin ==
    /\ pc = Idle
    /\ \E uri \in URIs, state \in StateFilters :
        Begin([op |-> "list_vms_with_ips", uri |-> uri, state |-> state],
              Call(<< <<"list">>, <<"--all">> >>, uri, DefaultTimeout, FALSE), "list_list")

ListListReturn ==
    /\ pc = "list_list"
    /\ \E o \in EnvOutcomes(Last(calls), hv) :
          Continue(o, list_vms_after_list(req.uri, req.state,
                                          run_virsh_command(o, Last(calls).timeout)))

ListDomifaddrReturn ==
    /\ pc = "list_domifaddr"
    /\ \E o \in EnvOutcomes(Last(calls), hv) :
          Continue(o, list_vms_after_domifaddr(req.uri, loc,
                                               run_virsh_command(o, Last(calls).timeout)))

ListAgentReturn ==
    /\ pc = "list_agent"
    /\ \E o \in EnvOutcomes(Last(calls), hv) :
          Continue(o, list_vms_after_agent(req.uri, loc, o))

ListDomuuidReturn ==
    /\ pc = "list_domuuid"
    /\ \E o \in EnvOutcomes(Last(calls), hv) :
          Continue(o, list_vms_after_domuuid(req.uri, loc,
                                             run_virsh_command(o, Last(calls).timeout)))

DiskTargets == {None, Some(<<>>), Some(<<"/data/images">>)}

CloneURIs == {None, Some(<<>>), Some(<<"qemu:///system">>)}

CloneRequests ==
    [new_vm_name : {<<"clone01">>}, disk_target : DiskTargets, connection_uri : CloneURIs]

ScriptPath == <<"/usr/local/bin/vmm_linked_clone.sh">>

\* what the helper may print when it exits 0
CloneOutputs ==
    { <<>>,
      <<"Linked clone", " ", "Created", " ", "at", " ", "/img/clone01", ".qcow2", "\n">>,
      <<"Base", " ", "/img/base", ".qcow2", "\n",
        "Disk", " ", "created", " ", "at", " ", "/img/clone01", ".qcow2", "\n">>,
      <<"/img/clone01", ".qcow2", "\n", "See", " ", "/img/clone01", ".qcow2", ",", "\n">>,
      <<"created", " ", "at", " ", "the default pool", "\n">> }

CloneOutcomes ==
    {TimedOut, SpawnFailed, Exited(1, <<>>, <<"ERROR", " ", "source VM is running", "\n">>),
     Exited(141, <<"partial", "\n">>, <<>>)}
    \cup {Exited(0, out, <<>>) : out \in CloneOutputs}

\* find_linked_clone_script found no executable helper
CloneNoHelper ==
    /\ pc = Idle
    /\ \E vm \in VMs, request \in CloneRequests :
          /\ req' = [op |-> "create_linked_clone", vm |-> vm, request |-> request]
          /\ resp' = Err(HTTPException(500, "Linked clone script not found", <<>>))
          /\ pc' = "done"
          /\ UNCHANGED <<calls, outs, loc, hv, accepted, fin, fout>>

CloneBegin ==
    /\ pc = Idle
    /\ \E vm \in VMs, request \in CloneRequests :
        Begin([op |-> "create_linked_clone", vm |-> vm, request |-> request],
              CloneCall(ScriptPath, vm, request), "clone_run")

CloneReturn ==
    /\ pc = "clone_run"
    /\ \E o \in CloneOutcomes :
          Continue(o, create_linked_clone_after_run(req.vm, req.request, o))

\* the response has been sent; the next request finds nothing of this one
Finish ==
    /\ pc = "done"
    /\ pc' = Idle
    /\ req' = NoReq
    /\ calls' = <<>>
    /\ outs' = <<>>
    /\ loc' = NoLoc
    /\ resp' = NoResp
    /\ UNCHANGED <<hv, accepted, fin, fout>>

Init ==
    /\ pc = Idle
    /\ req = NoReq
    /\ calls = <<>>
    /\ outs = <<>>
    /\ loc = NoLoc
    /\ resp = NoResp
    /\ hv \in [VMs -> HvStates]
    /\ accepted = <<>>
    /\ fin = NoReq
    /\ fout = NoResp

Next ==
    \/ LifecycleBegin
    \/ LifecycleReturn
    \/ DeleteBegin
    \/ DeleteDominfoReturn
    \/ DeleteDestroyReturn
    \/ DeleteUndefineReturn
    \/ IpBegin
    \/ IpDomifaddrReturn
    \/ IpAgentReturn
    \/ ListBegin
    \/ ListListReturn
    \/ ListDomifaddrReturn
    \/ ListAgentReturn
    \/ ListDomuuidReturn
    \/ CloneNoHelper
    \/ CloneBegin
    \/ CloneReturn
    \/ Finish

Spec == Init /\ [][Next]_vars

(***************************************************************************)
(* Properties of the handlers                                              *)
(***************************************************************************)
Failed(o) == o.kind # "exit" \/ o.rc # 0

Verbs == [i \in 1..Len(calls) |-> Verb(calls[i])]

IsResolutionCall(c) == Verb(c) \in {<<"domifaddr">>, <<"qemu-agent-command">>}

\* the state virsh dominfo reported for the request's VM holds the token
\* "running"
ReportedRunning ==
    \E st \in HvStates \ {"absent"}, l \in Locales :
        /\ outs[1].stdout = DomInfoText(req.vm, st, l)
        /\ Contains(<<"running">>, LocalState(st, l))

\* C1: in delete_vm, once the info query has succeeded, force-stop is issued
\* exactly when the reported state holds the running token; a VM reported as
\* not running gets the undefine call alone; a VM reported running gets
\* force-stop and then undefine, and a failed force-stop ends the operation
\* with an error (500 for a non-zero exit) and no undefine call.
C1_DeleteStopsExactlyRunning ==
    (req.op = "delete_vm" /\ Len(outs) >= 1 /\ ~Failed(outs[1])) =>
        /\ (\E i \in 1..Len(calls) : Verbs[i] = <<"destroy">>) <=> ReportedRunning
        /\ ~ReportedRunning =>
              /\ Verbs = << <<"dominfo">>, <<"undefine">> >>
              /\ calls[2] = UndefineCall(req.vm, req.uri)
        /\ ReportedRunning =>
              /\ calls[2] = DestroyCall(req.vm, req.uri)
              /\ (Len(outs) >= 2 /\ ~Failed(outs[2])) =>
                    /\ Verbs = << <<"dominfo">>, <<"destroy">>, <<"undefine">> >>
                    /\ calls[3] = UndefineCall(req.vm, req.uri)
              /\ (Len(outs) >= 2 /\ Failed(outs[2])) =>
                    /\ Verbs = << <<"dominfo">>, <<"destroy">> >>
                    /\ pc = "done"
                    /\ resp.kind = "error"
                    /\ outs[2].kind = "exit" => resp.status = 500

C1_Witness ==
    /\ req.op = "delete_vm"
    /\ pc = "done"
    /\ Len(outs) = 3
    /\ ReportedRunning
    /\ Verbs = << <<"dominfo">>, <<"destroy">>, <<"undefine">> >>
    /\ resp.kind = "ok"

\* the VMs the list request is working through, with the states listed
ListedVms ==
    IF req.op # "list_vms_with_ips" THEN <<>>
    ELSE IF pc = "done" THEN (IF resp.kind = "ok" THEN resp.body.vms ELSE <<>>)
    ELSE IF pc = "list_list" THEN <<>>
    ELSE loc.vms

\* the records the list request has built so far
ListRecords ==
    IF req.op # "list_vms_with_ips" THEN <<>>
    ELSE IF pc = "done" THEN (IF resp.kind = "ok" THEN resp.body.vms ELSE <<>>)
    ELSE IF pc = "list_list" THEN <<>>
    ELSE loc.done

InFamily(state) == Lower(state) \in {<<"running">>, <<"idle">>, <<"paused">>}

\* C2 as claimed: whichever entry point resolves it, a VM whose state is not
\* in the running family gets an empty interface sequence and no external call.
C2_NotRunningNoCalls ==
    /\ (req.op = "get_vm_ip" /\ hv[req.vm] = "shut off") =>
          /\ calls = <<>>
          /\ pc = "done" => (resp.kind = "ok" /\ resp.body.interfaces = <<>>)
    /\ \A j \in 1..Len(ListRecords) :
          ~InFamily(ListRecords[j].state) =>
              /\ ListRecords[j].interfaces = <<>>
              /\ \A i \in 1..Len(calls) : Target(calls[i]) # ListRecords[j].name

\* C2 amended: in list_vms_with_ips a VM listed in a state outside the running
\* family gets an empty interface sequence, and neither the address-listing
\* call nor the guest-agent call is issued for it (the uuid query still is);
\* get_vm_ip checks no state and issues the address-listing call for any VM.
C2_ListSkipsNotRunning ==
    /\ \A j \in 1..Len(ListRecords) :
          ~InFamily(ListRecords[j].state) => ListRecords[j].interfaces = <<>>
    /\ req.op = "list_vms_with_ips" =>
          \A i \in 1..Len(calls) :
              IsResolutionCall(calls[i]) =>
                  \E j \in 1..Len(ListedVms) :
                      /\ ListedVms[j].name = Target(calls[i])
                      /\ InFamily(ListedVms[j].state)
    /\ (req.op = "get_vm_ip" /\ pc # Idle) => calls[1] = DomifaddrCall(req.vm, req.uri)

C2_Witness ==
    /\ req.op = "list_vms_with_ips"
    /\ pc = "done"
    /\ resp.kind = "ok"
    /\ \E j \in 1..Len(ListRecords) :
          /\ ListRecords[j].state = <<"shut">>
          /\ hv[ListRecords[j].name] = "shut off"
          /\ ListRecords[j].interfaces = <<>>
          /\ \E i \in 1..Len(calls) : calls[i] = DomuuidCall(ListRecords[j].name, req.uri)
    /\ \E j \in 1..Len(ListRecords) : ListRecords[j].interfaces # <<>>

\* the number of uuid queries among the first k calls: the VMs done before
\* call k
RECURSIVE UuidCallsBefore(_)
UuidCallsBefore(k) ==
    IF k = 0 THEN 0
    ELSE UuidCallsBefore(k - 1) + (IF Verb(calls[k]) = <<"domuuid">> THEN 1 ELSE 0)

\* in a list request, the address listing issued as call k failed or raised:
\* the next call is the guest agent's, and what it yields is what the VM gets
ListFallsThrough(k) ==
    /\ ~(pc = "done" /\ resp.kind = "error")
    /\ Len(calls) >= k + 1
    /\ calls[k + 1] = AgentCall(Target(calls[k]), req.uri)
    /\ Len(outs) >= k + 1 =>
          LET j == UuidCallsBefore(k) + 1
              yielded == AgentTry(outs[k + 1]).out
          IN  IF Len(ListRecords) >= j THEN ListRecords[j].interfaces = yielded
              ELSE loc.interfaces = yielded

\* C3 as claimed: in both entry points a failed or raising address listing of
\* a running-family VM is not propagated but leads to the guest agent.
C3_FailureFallsThrough ==
    /\ req.op = "list_vms_with_ips" =>
          \A k \in 1..Len(outs) :
              (Verb(calls[k]) = <<"domifaddr">> /\ Failed(outs[k])) => ListFallsThrough(k)
    /\ (req.op = "get_vm_ip" /\ hv[req.vm] \in RunningFamily /\ Len(outs) >= 1
        /\ Failed(outs[1])) =>
          /\ ~(pc = "done" /\ resp.kind = "error")
          /\ calls[2] = AgentCall(req.vm, req.uri)

\* C3 amended: in list_vms_with_ips a failed or raising address listing of a
\* running-family VM is never propagated: the guest agent is asked next and
\* the VM gets what it yields, empty included.  get_vm_ip propagates a failed
\* or raising address listing as an error and makes no further call.
C3_ListFallsThrough ==
    /\ req.op = "list_vms_with_ips" =>
          \A k \in 1..Len(outs) :
              (Verb(calls[k]) = <<"domifaddr">> /\ Failed(outs[k])) => ListFallsThrough(k)
    /\ (req.op = "get_vm_ip" /\ Len(outs) >= 1 /\ Failed(outs[1])) =>
          /\ pc = "done"
          /\ resp.kind = "error"
          /\ resp.status \in {400, 404, 500, 504}
          /\ Len(calls) = 1

C3_Witness ==
    /\ req.op = "list_vms_with_ips"
    /\ pc = "done"
    /\ resp.kind = "ok"
    /\ \E k \in 1..(Len(outs) - 1) :
          /\ Verb(calls[k]) = <<"domifaddr">>
          /\ outs[k].kind = "timeout"
          /\ hv[Target(calls[k])] \in RunningFamily
          /\ AgentTry(outs[k + 1]).out # <<>>
          /\ ListRecords[UuidCallsBefore(k) + 1].interfaces = AgentTry(outs[k + 1]).out

\* the address listing answered with a table of no rows
ZeroRows(o) == ~Failed(o) /\ o.stdout = RenderTable(IfaddrHeader, <<>>) \o <<"\n">>

\* C4: when the address listing of a running VM exits 0 with zero rows, the
\* guest agent is asked exactly once for that VM, in list_vms_with_ips and in
\* get_vm_ip.
C4_AgentAskedOnce ==
    req.op \in {"list_vms_with_ips", "get_vm_ip"} =>
        \A k \in 1..Len(outs) :
            (Verb(calls[k]) = <<"domifaddr">> /\ ZeroRows(outs[k])) =>
                /\ Len(calls) >= k + 1
                /\ calls[k + 1] = AgentCall(Target(calls[k]), req.uri)
                /\ Len(calls) >= k + 2 => Verb(calls[k + 2]) # <<"qemu-agent-command">>
                /\ Cardinality({i \in 1..Len(calls) :
                                    /\ Verb(calls[i]) = <<"qemu-agent-command">>
                                    /\ Target(calls[i]) = Target(calls[k])}) = 1

C4_Witness ==
    /\ req.op = "list_vms_with_ips"
    /\ pc = "done"
    /\ \E k \in 1..Len(outs) :
          /\ Verb(calls[k]) = <<"domifaddr">>
          /\ ZeroRows(outs[k])
          /\ hv[Target(calls[k])] = "running"
          /\ Verb(calls[k + 1]) = <<"qemu-agent-command">>

\* C6: the positional arguments after the helper path: (absent, absent) gives
\* [source, newName]; ("", absent) gives three with the third empty; (absent,
\* URI) gives four with the third an empty placeholder; a non-empty
\* connectionTarget is always the fourth and a present diskTarget the third.
C6_ClonePositionalArgs ==
    (req.op = "create_linked_clone" /\ Len(calls) >= 1) =>
        LET args == Tail(calls[1].argv)
            dt == req.request.disk_target
            cu == req.request.connection_uri
        IN  /\ calls[1].argv[1] = ScriptPath
            /\ SubSeq(args, 1, 2) = <<req.vm, req.request.new_vm_name>>
            /\ (dt = None /\ cu = None) => Len(args) = 2
            /\ (dt = Some(<<>>) /\ cu = None) => (Len(args) = 3 /\ args[3] = <<>>)
            /\ (dt = None /\ Truthy(cu)) => (Len(args) = 4 /\ args[3] = <<>>)
            /\ Truthy(cu) => (Len(args) = 4 /\ args[4] = cu[1])
            /\ dt # None => (Len(args) >= 3 /\ args[3] = dt[1])

C6_Witness ==
    /\ req.op = "create_linked_clone"
    /\ Len(calls) = 1
    /\ req.request.disk_target = None
    /\ req.request.connection_uri = Some(<<"qemu:///system">>)
    /\ calls[1].argv = <<ScriptPath, req.vm, <<"clone01">>, <<>>, <<"qemu:///system">> >>

\* C7: in delete_vm a non-zero exit of the info query yields 404 with neither
\* force-stop nor undefine issued, and no call follows a call that failed.
C7_DeleteStopsAtFailure ==
    req.op = "delete_vm" =>
        /\ (Len(outs) >= 1 /\ outs[1].kind = "exit" /\ outs[1].rc # 0) =>
              /\ pc = "done"
              /\ resp.kind = "error"
              /\ resp.status = 404
              /\ Verbs = << <<"dominfo">> >>
        /\ \A k \in 1..Len(outs) :
              Failed(outs[k]) => (Len(calls) = k /\ pc = "done" /\ resp.kind = "error")

C7_Witness ==
    /\ req.op = "delete_vm"
    /\ pc = "done"
    /\ outs[1].kind = "exit"
    /\ outs[1].rc # 0
    /\ resp.status = 404
    /\ Len(calls) = 1

\* C10: each lifecycle operation makes exactly one call, the control verb
\* followed by the VM name, default timeout, no elevation; it succeeds exactly
\* when that call exits 0 and a non-zero exit gives 500 carrying the combined
\* output.
C10_LifecycleSingleCall ==
    (req.op \in LifecycleOps /\ pc # Idle) =>
        /\ Len(calls) = 1
        /\ calls[1].via = "run_virsh_command"
        /\ calls[1].cmd =
              << (CASE req.op = "power_on" -> <<"start">>
                    [] req.op = "power_off" -> <<"shutdown">>
                    [] req.op = "force_off" -> <<"destroy">>
                    [] req.op = "reboot" -> <<"reboot">>
                    [] req.op = "pause" -> <<"suspend">>
                    [] req.op = "resume" -> <<"resume">>), req.vm >>
        /\ calls[1].timeout = DefaultTimeout
        /\ ~calls[1].sudo
        /\ calls[1].argv[1] = <<"virsh">>
        /\ pc = "done" =>
              /\ Len(outs) = 1
              /\ resp.kind = "ok" <=> ~Failed(outs[1])
              /\ (outs[1].kind = "exit" /\ outs[1].rc # 0) =>
                    /\ resp.kind = "error"
                    /\ resp.status = 500
                    /\ resp.text = Strip(outs[1].stderr)

C10_Witness ==
    /\ req.op = "power_on"
    /\ pc = "done"
    /\ outs[1].kind = "exit"
    /\ outs[1].rc # 0
    /\ resp.status = 500
    /\ resp.text # <<>>

\* C13: delete_vm reports success if and only if the undefine call with
\* storage removal was issued and exited 0; on every other path (info query,
\* force-stop or undefine failed, timed out or could not be spawned) it
\* reports an error.
C13_DeleteSuccessIffUndefined ==
    (req.op = "delete_vm" /\ pc = "done") =>
        /\ resp.kind \in {"ok", "error"}
        /\ resp.kind = "ok" <=>
              \E k \in 1..Len(outs) :
                  /\ calls[k] = UndefineCall(req.vm, req.uri)
                  /\ outs[k].kind = "exit"
                  /\ outs[k].rc = 0
        /\ (\E k \in 1..Len(outs) : Failed(outs[k])) => resp.kind = "error"
        /\ (\A k \in 1..Len(calls) : Verbs[k] # <<"undefine">>) => resp.kind = "error"

C13_Witness ==
    /\ req.op = "delete_vm"
    /\ pc = "done"
    /\ Verbs = << <<"dominfo">>, <<"destroy">>, <<"undefine">> >>
    /\ ~Failed(outs[1]) /\ ~Failed(outs[2])
    /\ outs[3].kind = "exit" /\ outs[3].rc # 0
    /\ resp.kind = "error"
    /\ resp.status = 500

\* the line holds the creation marker or an image path
IsCloneLine(line) ==
    Contains(<<"created", " ", "at">>, Lower(line)) \/ Contains(<<".qcow2">>, line)

\* the first token ending in .qcow2 on the first line that holds the marker
\* or an image path; none when there is no such line or no such token on it
FirstLinePath(stdout) ==
    LET lines == SplitOn(stdout, "\n")
        hits == {i \in 1..Len(lines) : IsCloneLine(lines[i])}
    IN  IF hits = {} THEN None
        ELSE LET parts == SplitWS(lines[CHOOSE i \in hits : \A j \in hits : i <= j])
                 toks == {i \in 1..Len(parts) : EndsWith(parts[i], <<".qcow2">>)}
             IN  IF toks = {} THEN None
                 ELSE Some(parts[CHOOSE i \in toks : \A j \in toks : i <= j])

\* C15: when the helper exits 0 the clone is reported as a success and the
\* artifact path is the first token ending in .qcow2 on the first output line
\* holding the creation marker or an image path, however many later lines
\* match; none when no line yields one.
C15_FirstLineWins ==
    (req.op = "create_linked_clone" /\ pc = "done" /\ Len(outs) = 1 /\ ~Failed(outs[1])) =>
        /\ resp.kind = "ok"
        /\ resp.body.success
        /\ resp.body.disk_path = FirstLinePath(outs[1].stdout)

\* the domains virsh lists that pass the request's state filter, in listing
\* order
RECURSIVE ListedAndKept(_)
ListedAndKept(order) ==
    IF order = <<>> THEN <<>>
    ELSE LET vm == Head(order) IN
         (IF /\ hv[vm] # "absent"
             /\ req.state # None => Lower(SplitWS(StateText(hv[vm]))[1]) = Lower(req.state[1])
          THEN <<vm>> ELSE <<>>) \o ListedAndKept(Tail(order))

\* C17: once the list-all call of list_vms_with_ips has exited 0 the request
\* never ends in an error: a timeout, spawn failure or non-zero exit of a
\* guest-agent call leaves that VM's interfaces empty and one of a uuid call
\* leaves its uuid none, and the result holds one record per listed VM that
\* passed the state filter, in listing order, with count the number of
\* records.
C17_ListNeverFails ==
    (req.op = "list_vms_with_ips" /\ Len(outs) >= 1 /\ ~Failed(outs[1])) =>
        /\ pc = "done" =>
              /\ resp.kind = "ok"
              /\ resp.body.count = Len(resp.body.vms)
              /\ [j \in 1..Len(resp.body.vms) |-> resp.body.vms[j].name] = ListedAndKept(VMOrder)
        /\ \A j \in 1..Len(ListRecords) : \A k \in 2..Len(outs) :
              (Target(calls[k]) = ListRecords[j].name /\ Failed(outs[k])) =>
                  /\ Verb(calls[k]) = <<"domuuid">> => ListRecords[j].uuid = None
                  /\ Verb(calls[k]) = <<"qemu-agent-command">> => ListRecords[j].interfaces = <<>>

C17_Witness ==
    /\ req.op = "list_vms_with_ips"
    /\ pc = "done"
    /\ resp.kind = "ok"
    /\ resp.body.count = 2
    /\ Verbs = << <<"list">>, <<"domifaddr">>, <<"qemu-agent-command">>, <<"domuuid">>,
                  <<"domuuid">> >>
    /\ outs[2].kind = "timeout"
    /\ outs[3].kind = "spawn"
    /\ outs[4].kind = "exit" /\ outs[4].rc # 0
    /\ outs[5].kind = "timeout"
    /\ resp.body.vms[1].interfaces = <<>>
    /\ resp.body.vms[1].uuid = None
    /\ resp.body.vms[2].uuid = None

(***************************************************************************)
(* Specification of run_virsh_command as a function of the child's outcome *)
(***************************************************************************)
ExecInit ==
    /\ HandlersIdle
    /\ fin \in [o : ExecOutcomes, timeout : {DefaultTimeout, 60}]
    /\ fout = NoResp

ExecRun ==
    /\ fout = NoResp
    /\ fout' = Out(run_virsh_command(fin.o, fin.timeout))
    /\ UNCHANGED <<fin, hvars>>

ExecNext == ExecRun

SpecExec == ExecInit /\ [][ExecNext]_vars

\* t is s without its leading and trailing whitespace
IsTrimOf(t, s) ==
    /\ \E i \in 1..(Len(s) + 1) : \E j \in 0..Len(s) :
          /\ t = SubSeq(s, i, j)
          /\ \A k \in 1..Len(s) : (k < i \/ k > j) => IsSpace(s[k])
    /\ t # <<>> => (~IsSpace(t[1]) /\ ~IsSpace(t[Len(t)]))

\* C9: a child that ran to completion never makes run_virsh_command raise;
\* exit code 0 gives trimmed stdout alone, a non-zero exit code gives trimmed
\* stdout followed by trimmed stderr with a newline between them only if the
\* stdout part is non-empty; a timeout raises 504 and a spawn failure 500.
C9_ExecutorOutput ==
    fout.kind = "out" =>
      /\ fin.o.kind = "exit" =>
           /\ ~fout.v.raised
           /\ fout.v.rc = fin.o.rc
           /\ fin.o.rc = 0 => IsTrimOf(fout.v.output, fin.o.stdout)
           /\ fin.o.rc # 0 =>
                \E out \in ExecTexts, err \in ExecTexts, sep \in {<<>>, <<"\n">>} :
                    /\ IsTrimOf(out, fin.o.stdout)
                    /\ IsTrimOf(err, fin.o.stderr)
                    /\ fout.v.output = out \o sep \o err
                    /\ sep # <<>> => out # <<>>
                    /\ out = <<>> => fout.v.output = err
      /\ fin.o.kind = "timeout" => (fout.v.raised /\ fout.v.status = 504)
      /\ fin.o.kind = "spawn" => (fout.v.raised /\ fout.v.status = 500)
      /\ fout.v.raised => fin.o.kind \in {"timeout", "spawn"}

C9_Witness ==
    /\ fout.kind = "out"
    /\ fin.o.kind = "exit"
    /\ fin.o.rc # 0
    /\ fin.o.stdout = <<" ", "a">>
    /\ fin.o.stderr = <<"a", "\n">>
    /\ fout.v.output = <<"a", "\n", "a">>

(***************************************************************************)
(* Specification of parse_domifaddr_output on rendered tables              *)
(***************************************************************************)
MaxRows == 2

\* the columns of a data row, left to right, and what may stand in each
IfaddrColumns ==
    << {<<"vnet0">>, <<"-">>}, {<<"52:54:00:12:34:56">>}, {<<"ipv4">>},
       {<<"192.168.122.100/24">>}, {<<"extra">>} >>

RECURSIVE RowsOver(_, _)
RowsOver(columns, n) ==
    IF n = 0 THEN {<<>>}
    ELSE LET shorter == RowsOver(columns, n - 1)
         IN  shorter \cup {Append(r, t) : r \in {q \in shorter : Len(q) = n - 1},
                                          t \in columns[n]}

IfaddrRows == [tokens : RowsOver(IfaddrColumns, Len(IfaddrColumns)), style : Styles]

IfaddrTables == SeqsUpTo(IfaddrRows, MaxRows)

IfaddrInit ==
    /\ HandlersIdle
    /\ fin \in [rows : IfaddrTables]
    /\ fout = NoResp

IfaddrRun ==
    /\ fout = NoResp
    /\ fout' = Out(parse_domifaddr_output(RenderTable(IfaddrHeader, fin.rows)))
    /\ UNCHANGED <<fin, hvars>>

IfaddrNext == IfaddrRun

SpecIfaddr == IfaddrInit /\ [][IfaddrNext]_vars

\* C8: on a two-header-line table, a data row of four tokens yields exactly
\* one interface with all four fields populated, and a data row that is only
\* a name yields one interface with that name and mac, protocol and address
\* all none.
C8_RowFields ==
    (fout.kind = "out" /\ Len(fin.rows) = 1) =>
        LET t == fin.rows[1].tokens IN
        /\ Len(t) = 4 =>
             fout.v = <<VMInterface(t[1], Some(t[2]), Some(t[3]), Some(t[4]))>>
        /\ Len(t) = 1 =>
             fout.v = <<VMInterface(t[1], None, None, None)>>

(***************************************************************************)
(* Specification of get_vm_interfaces_via_guest_agent on bounded replies   *)
(***************************************************************************)
MaxIfaces == 2

Entry(type, addr, prefix) ==
    JDict([j \in {"ip-address-type", "ip-address", "prefix"} |->
             CASE j = "ip-address-type" -> type [] j = "ip-address" -> addr [] j = "prefix" -> prefix])

EntryNoPrefix(type, addr) ==
    JDict([j \in {"ip-address-type", "ip-address"} |->
             CASE j = "ip-address-type" -> type [] j = "ip-address" -> addr])

Iface(name, mac, addrs) ==
    JDict([k \in {"name", "hardware-address", "ip-addresses"} |->
             CASE k = "name" -> name [] k = "hardware-address" -> mac [] k = "ip-addresses" -> addrs])

\* the interface descriptors a reply is made of
AgentIfaceChoices ==
    { Eth0,
      Loopback,
      JStr(<<"garbage">>),
      Iface(JStr(<<"eth1">>), JStr(<<"52:54:00:aa:bb:cc">>),
            JList(<< Entry(JStr(<<"ipv4">>), JStr(<<"0.0.0.0">>), JInt(0)),
                     EntryNoPrefix(JStr(<<"ipv6">>), JStr(<<"fe80::1">>)) >>)),
      Iface(JStr(<<"eth2">>), JStr(<<"52:54:00:aa:bb:cc">>), JNull),
      Iface(JStr(<<"eth3">>), JStr(<<"52:54:00:aa:bb:cc">>),
            JList(<< Entry(JStr(<<"ipv4">>), JStr(<<"10.0.0.9">>), JInt(16)), JStr(<<"x">>) >>)),
      Iface(JNull, JStr(<<"52:54:00:aa:bb:cc">>),
            JList(<< Entry(JStr(<<"ipv4">>), JStr(<<"10.0.0.7">>), JInt(24)) >>)),
      JDict([k \in {"ip-addresses"} |->
               JList(<< Entry(JStr(<<"ipv4">>), JStr(<<"10.0.0.8">>), JInt(24)) >>)]),
      JDict([k \in {"name"} |-> JStr(<<"eth4">>)]) }

AgentStdouts ==
    {Reply(ifaces) : ifaces \in SeqsUpTo(AgentIfaceChoices, MaxIfaces)}
    \cup {Malformed,
          Document(JDict([k \in {"error"} |-> JStr(<<"agent not connected">>)])),
          Document(JDict([k \in {"return"} |-> JStr(<<"ok">>)])),
          Document(JList(<<>>))}

AgentOutcomes ==
    {Exited(rc, out, <<>>) : rc \in {0, 1}, out \in AgentStdouts} \cup {TimedOut, SpawnFailed}

AgentInit ==
    /\ HandlersIdle
    /\ fin \in [o : AgentOutcomes]
    /\ fout = NoResp

AgentRun ==
    /\ fout = NoResp
    /\ fout' = Out(get_vm_interfaces_via_guest_agent(fin.o))
    /\ UNCHANGED <<fin, hvars>>

AgentNext == AgentRun

SpecAgent == AgentInit /\ [][AgentNext]_vars

\* an address entry the code cannot turn into a record
BadEntry(e) == e.t # "dict"

\* an interface descriptor of wrong type, or with a wrongly typed field
BadIface(d) ==
    \/ d.t # "dict"
    \/ /\ JGet(d, "name", JNull) # JStr(<<"lo">>)
       /\ \/ JGet(d, "ip-addresses", JList(<<>>)).t # "list"
          \/ /\ JGet(d, "ip-addresses", JList(<<>>)).l # <<>>
             /\ \/ JGet(d, "name", JStr(<<"unknown">>)).t # "str"
                \/ \E i \in 1..Len(d.d["ip-addresses"].l) : BadEntry(d.d["ip-addresses"].l[i])

\* the call or the decoding of its reply fails
AgentFailure(o) ==
    \/ Failed(o)
    \/ ~o.stdout.json
    \/ /\ o.stdout.doc.t = "dict"
       /\ "return" \in DOMAIN o.stdout.doc.d
       /\ o.stdout.doc.d["return"].t = "list"
       /\ \E i \in 1..Len(o.stdout.doc.d["return"].l) : BadIface(o.stdout.doc.d["return"].l[i])

\* C5: get_vm_interfaces_via_guest_agent returns the empty sequence whenever
\* any failure occurs, also when it occurs after earlier interface
\* descriptors of the same reply were decoded.
C5_FailureYieldsEmpty ==
    (fout.kind = "out" /\ AgentFailure(fin.o)) => fout.v = <<>>

\* the record the reply's address entry e of interface iface stands for
EntryRecord(iface, e) ==
    VMInterface(JGet(iface, "name", JStr(<<"unknown">>)).s,
                OptStr(JGet(iface, "hardware-address", JNull)),
                Some(e.d["ip-address-type"].s),
                Some(IF "prefix" \in DOMAIN e.d
                     THEN e.d["ip-address"].s \o <<"/">> \o PyFormat(e.d["prefix"])
                     ELSE e.d["ip-address"].s))

\* one record per address entry of every interface not named lo, in reply
\* order
RECURSIVE ReplyRecords(_)
ReplyRecords(ifaces) ==
    IF ifaces = <<>> THEN <<>>
    ELSE LET iface == Head(ifaces)
             entries == JGet(iface, "ip-addresses", JList(<<>>)).l
         IN  (IF JGet(iface, "name", JNull) = JStr(<<"lo">>) THEN <<>>
              ELSE [i \in 1..Len(entries) |-> EntryRecord(iface, entries[i])])
             \o ReplyRecords(Tail(ifaces))

\* C14: for a successful, well-typed guest-agent reply the result holds one
\* record per address entry of every interface not named lo, in reply order,
\* each with its interface's name and hardware address, and the address is
\* address/prefix whenever the entry has a prefix, prefix 0 included, and the
\* bare address only when it has none.
C14_RecordPerEntry ==
    (/\ fout.kind = "out"
     /\ ~AgentFailure(fin.o)
     /\ fin.o.stdout.doc.t = "dict"
     /\ "return" \in DOMAIN fin.o.stdout.doc.d
     /\ fin.o.stdout.doc.d["return"].t = "list")
    => fout.v = ReplyRecords(fin.o.stdout.doc.d["return"].l)

(***************************************************************************)
(* Specification of parse_vm_list on rendered tables                       *)
(***************************************************************************)
\* the columns of a data row of virsh list --all, left to right: the id (a
\* number, or a dash for a domain that is not active), the name, the words
\* of the state
VmListColumns ==
    << {<<"3">>, <<"-">>}, {<<"web01">>, <<"db02">>}, {<<"running">>, <<"shut">>}, {<<"off">>} >>

VmListRowSet == [tokens : RowsOver(VmListColumns, Len(VmListColumns)), style : Styles]

VmListTables == SeqsUpTo(VmListRowSet, MaxRows)

VmListInit ==
    /\ HandlersIdle
    /\ fin \in [rows : VmListTables]
    /\ fout = NoResp

VmListRun ==
    /\ fout = NoResp
    /\ fout' = Out(parse_vm_list(RenderTable(ListHeader, fin.rows)))
    /\ UNCHANGED <<fin, hvars>>

VmListNext == VmListRun

SpecVmList == VmListInit /\ [][VmListNext]_vars

\* the rows that carry a name column, in input order
RECURSIVE NamedRows(_)
NamedRows(rows) ==
    IF rows = <<>> THEN <<>>
    ELSE (IF Len(Head(rows).tokens) >= 2 THEN <<Head(rows)>> ELSE <<>>) \o NamedRows(Tail(rows))

BlkHeader == << <<" ", "Target", " ", " ", "Source">>, <<"-----">> >>

RoundTripVmColumns ==
    << {<<"3">>, <<"0", "3">>, <<"-">>}, {<<"web01">>}, {<<"running">>, <<"shut">>}, {<<"off">>} >>

BlkColumns ==
    << {<<"vda">>, <<"hda">>}, {<<"/img/a", ".qcow2">>, <<"-">>}, {<<"extra">>} >>

RoundTripRows(columns) == [tokens : RowsOver(columns, Len(columns)), style : {"padded"}]

Parsers == {"parse_vm_list", "parse_domifaddr_output", "parse_domblklist_output"}

RoundTripColumns(parser) ==
    CASE parser = "parse_vm_list" -> RoundTripVmColumns
      [] parser = "parse_domifaddr_output" -> IfaddrColumns
      [] parser = "parse_domblklist_output" -> BlkColumns

TableHeader(parser) ==
    CASE parser = "parse_vm_list" -> ListHeader
      [] parser = "parse_domifaddr_output" -> IfaddrHeader
      [] parser = "parse_domblklist_output" -> BlkHeader

Parse(parser, output) ==
    CASE parser = "parse_vm_list" -> parse_vm_list(output)
      [] parser = "parse_domifaddr_output" -> parse_domifaddr_output(output)
      [] parser = "parse_domblklist_output" -> parse_domblklist_output(output)

DigitSyms == <<"0", "1", "2", "3", "4", "5", "6", "7", "8", "9">>

\* str(n) for a natural number
RECURSIVE ShowInt(_)
ShowInt(n) ==
    IF n < 10 THEN <<DigitSyms[n + 1]>> ELSE ShowInt(n \div 10) \o <<DigitSyms[(n % 10) + 1]>>

\* the columns of a record written back: an absent id and an absent disk
\* source as the dash of their tables, an absent trailing column of an
\* address row left out
ShowRecord(parser, rec) ==
    CASE parser = "parse_vm_list" ->
           << (IF rec.id = None THEN <<"-">> ELSE ShowInt(rec.id[1])), rec.name, rec.state >>
      [] parser = "parse_domifaddr_output" ->
           <<rec.name>> \o rec.mac_address \o rec.protocol \o rec.address
      [] parser = "parse_domblklist_output" ->
           << rec.target, (IF rec.source = None THEN <<"-">> ELSE rec.source[1]) >>

Serialize(parser, recs, style) ==
    RenderTable(TableHeader(parser),
                [i \in 1..Len(recs) |-> [tokens |-> ShowRecord(parser, recs[i]), style |-> style]])

RoundTripInit ==
    /\ HandlersIdle
    /\ fin \in UNION {[parser : {p}, rows : SeqsUpTo(RoundTripRows(RoundTripColumns(p)), MaxRows)]
                       : p \in Parsers}
    /\ fout = NoResp

RoundTripParse ==
    /\ fout = NoResp
    /\ fout' = Out([stage |-> "parsed",
                    first |-> Parse(fin.parser, RenderTable(TableHeader(fin.parser), fin.rows))])
    /\ UNCHANGED <<fin, hvars>>

RoundTripReparse ==
    /\ fout # NoResp
    /\ fout.v.stage = "parsed"
    /\ \E style \in Styles :
          fout' = Out([stage |-> "reparsed", first |-> fout.v.first, style |-> style,
                       again |-> Parse(fin.parser, Serialize(fin.parser, fout.v.first, style))])
    /\ UNCHANGED <<fin, hvars>>

RoundTripNext == RoundTripParse \/ RoundTripReparse

SpecRoundTrip == RoundTripInit /\ [][RoundTripNext]_vars

\* C12: for each of the three tabular parsers, the records it produced,
\* written back under two header lines with whitespace-separated columns
\* and parsed again, come out as the same sequence of records.
C12_RoundTrip ==
    (fout.kind = "out" /\ fout.v.stage = "reparsed") => fout.v.again = fout.v.first

C12_Witness ==
    /\ fout.kind = "out"
    /\ fout.v.stage = "reparsed"
    /\ fin.parser = "parse_domblklist_output"
    /\ fout.v.first = << VMDisk(<<"hda">>, None), VMDisk(<<"vda">>, Some(<<"/img/a", ".qcow2">>)) >>
    /\ fout.v.again = fout.v.first

(***************************************************************************)
(* The server process with requests in flight together.  uvicorn.run       *)
(* serves the application from one process with one event loop; every      *)
(* handler is a coroutine (async def) whose body holds no await and blocks  *)
(* in subprocess.run for each external call.  A request accepted while a   *)
(* handler runs therefore waits: its handler starts when the running one    *)
(* has returned.                                                           *)
(***************************************************************************)
MaxPending == 2

ServerRequests == [op : {"delete_vm", "power_on"}, vm : VMs, uri : {None}]

\* a request arrives, whatever the event loop is doing
Accept ==
    /\ Len(accepted) < MaxPending
    /\ \E r \in ServerRequests : accepted' = Append(accepted, r)
    /\ UNCHANGED <<pc, req, calls, outs, loc, resp, hv, fin, fout>>

\* the event loop, free, starts the handler of the request waiting longest
Dispatch(call, at) ==
    /\ req' = Head(accepted)
    /\ accepted' = Tail(accepted)
    /\ calls' = <<call>>
    /\ pc' = at
    /\ UNCHANGED <<outs, loc, resp, hv, fin, fout>>

\* the handler of a waiting lifecycle request run to its end beside the
\* handler the event loop is in, as on a thread of its own
DispatchLifecycle_beside ==
    /\ accepted # <<>>
    /\ Head(accepted).op \in LifecycleOps
    /\ LET call == Call(LifecycleCommand(Head(accepted).op, Head(accepted).vm),
                        Head(accepted).uri, DefaultTimeout, FALSE)
       IN  \E o \in EnvOutcomes(call, hv) : hv' = EnvEffect(call, o, hv)
    /\ accepted' = Tail(accepted)
    /\ UNCHANGED <<pc, req, calls, outs, loc, resp, fin, fout>>

DispatchLifecycle ==
    /\ pc = Idle
    /\ accepted # <<>>
    /\ Head(accepted).op \in LifecycleOps
    /\ Dispatch(Call(LifecycleCommand(Head(accepted).op, Head(accepted).vm),
                     Head(accepted).uri, DefaultTimeout, FALSE), "lifecycle")

DispatchDelete ==
    /\ pc = Idle
    /\ accepted # <<>>
    /\ Head(accepted).op = "delete_vm"
    /\ Dispatch(Call(<< <<"dominfo">>, Head(accepted).vm >>, Head(accepted).uri,
                     DefaultTimeout, FALSE), "delete_dominfo")

ServerNext ==
    \/ Accept
    \/ DispatchLifecycle
    \/ DispatchDelete
    \/ LifecycleReturn
    \/ DeleteDominfoReturn
    \/ DeleteDestroyReturn
    \/ DeleteUndefineReturn
    \/ Finish

SpecServer == Init /\ [][ServerNext]_vars

\* a delete is running, anywhere from its info query to its undefine call
DeleteUnderWay ==
    req.op = "delete_vm" /\ pc \in {"delete_dominfo", "delete_destroy", "delete_undefine"}

\* a start of the VM being deleted is the next request waiting
StartWaits ==
    accepted # <<>> /\ Head(accepted).op = "power_on" /\ Head(accepted).vm = req.vm

====
